---------------------------- MODULE Spec2Model ----------------------------
(***************************************************************************)
(* A model of client-storage-utility (src/src/clientStorage.ts): the       *)
(* storage facade returned by createClientStorage, the MemoryStorage and   *)
(* CookieStorage singletons, and the host objects they act on              *)
(* (localStorage, sessionStorage, document.cookie).                        *)
(*                                                                         *)
(* A JavaScript string is modelled as the sequence of its characters, so   *)
(* that JSON.stringify, JSON.parse, decodeURIComponent and the cookie      *)
(* string handling are computed on text, as the code computes them.        *)
(***************************************************************************)
EXTENDS Naturals, Sequences, FiniteSets, TLC

(***************************************************************************)
(* Bounds of the model.                                                    *)
(***************************************************************************)
\* Number of facades created by createClientStorage().
NumFacades == 2
\* Number of facade calls in one behaviour.
MaxOps == 3
\* Number of times the clock advances between calls, and by how many
\* milliseconds each time (not a whole number of seconds).
MaxTicks == 1
TickMs == 1500

(***************************************************************************)
(* JavaScript values.  Every value is a record [t, s]: t is its type tag   *)
(* and s the characters of a string (<<>> for the other types).            *)
(***************************************************************************)
Str(s) == [t |-> "string", s |-> s]
Null == [t |-> "null", s |-> <<>>]
Undefined == [t |-> "undefined", s |-> <<>>]
\* A member inherited from Object.prototype (a function or the prototype
\* object itself); s names the property it was read from.
Inherited(k) == [t |-> "object", s |-> k]

\* ToBoolean: "", null and undefined are falsy; objects and the other strings
\* are truthy.
Truthy(x) ==
    CASE x.t = "string" -> x.s # <<>>
      [] x.t = "object" -> TRUE
      [] OTHER -> FALSE

\* The outcome of a call: a returned value or a thrown exception.
Return(x) == [kind |-> "return", t |-> x.t, s |-> x.s]
Throw(type, msg) == [kind |-> "throw", t |-> type, s |-> msg]

(***************************************************************************)
(* Text helpers.                                                           *)
(***************************************************************************)
\* s.indexOf(p) == 0
StartsWith(s, p) == Len(s) >= Len(p) /\ SubSeq(s, 1, Len(p)) = p

\* Position of the first occurrence of character c in s at or after i, or
\* Len(s) + 1 when there is none.
RECURSIVE IndexOfChar(_, _, _)
IndexOfChar(s, c, i) ==
    IF i > Len(s) THEN Len(s) + 1
    ELSE IF s[i] = c THEN i
    ELSE IndexOfChar(s, c, i + 1)

\* s.split(c)
RECURSIVE Split(_, _)
Split(s, c) ==
    LET p == IndexOfChar(s, c, 1) IN
    IF p > Len(s) THEN <<s>>
    ELSE <<SubSeq(s, 1, p - 1)>> \o Split(SubSeq(s, p + 1, Len(s)), c)

RECURSIVE TrimLeft(_)
TrimLeft(s) == IF s # <<>> /\ Head(s) = " " THEN TrimLeft(Tail(s)) ELSE s

RECURSIVE TrimRight(_)
TrimRight(s) ==
    IF s # <<>> /\ s[Len(s)] = " " THEN TrimRight(SubSeq(s, 1, Len(s) - 1)) ELSE s

(***************************************************************************)
(* Plain objects.  An object is the sequence of its own properties         *)
(* [k, v] in insertion order (the keys used here are not integer-like, so  *)
(* insertion order is enumeration order).                                  *)
(***************************************************************************)
Str__proto__ == <<"_", "_", "p", "r", "o", "t", "o", "_", "_">>
Str_toString == <<"t", "o", "S", "t", "r", "i", "n", "g">>
Str_constructor == <<"c", "o", "n", "s", "t", "r", "u", "c", "t", "o", "r">>
\* Property names every plain object inherits from Object.prototype (the ones
\* the model's keys can hit).
ObjectPrototypeKeys == {Str__proto__, Str_toString, Str_constructor}

HasOwn(obj, k) == \E i \in 1..Len(obj) : obj[i].k = k
OwnIndex(obj, k) == CHOOSE i \in 1..Len(obj) : obj[i].k = k
OwnKeys(obj) == {obj[i].k : i \in 1..Len(obj)}

\* CreateDataProperty: { [k]: v } and the properties JSON.parse creates.
ObjDefine(obj, k, v) ==
    IF HasOwn(obj, k)
    THEN [obj EXCEPT ![OwnIndex(obj, k)] = [k |-> k, v |-> v]]
    ELSE Append(obj, [k |-> k, v |-> v])

\* obj[k] = v, v a string.  Without an own property __proto__ the assignment
\* reaches the accessor of Object.prototype, which ignores a string.
ObjAssign(obj, k, v) ==
    IF ~HasOwn(obj, k) /\ k = Str__proto__ THEN obj ELSE ObjDefine(obj, k, v)

\* obj[k]: the own property, else the member inherited from Object.prototype,
\* else undefined.
ObjGet(obj, k) ==
    IF HasOwn(obj, k) THEN Str(obj[OwnIndex(obj, k)].v)
    ELSE IF k \in ObjectPrototypeKeys THEN Inherited(k)
    ELSE Undefined

\* delete obj[k]
ObjDelete(obj, k) ==
    IF HasOwn(obj, k)
    THEN LET i == OwnIndex(obj, k) IN SubSeq(obj, 1, i - 1) \o SubSeq(obj, i + 1, Len(obj))
    ELSE obj

(***************************************************************************)
(* JSON.stringify and JSON.parse on objects whose values are strings.      *)
(* The alphabet of the model holds no control characters, so the only      *)
(* escapes are \" and \\.                                                  *)
(***************************************************************************)
RECURSIVE JSON_escape(_)
JSON_escape(s) ==
    IF s = <<>> THEN <<>>
    ELSE (IF Head(s) \in {"\"", "\\"} THEN <<"\\", Head(s)>> ELSE <<Head(s)>>)
         \o JSON_escape(Tail(s))

JSON_quote(s) == <<"\"">> \o JSON_escape(s) \o <<"\"">>

RECURSIVE JSON_members(_)
JSON_members(obj) ==
    IF obj = <<>> THEN <<>>
    ELSE JSON_quote(obj[1].k) \o <<":">> \o JSON_quote(obj[1].v)
         \o (IF Len(obj) > 1 THEN <<",">> ELSE <<>>) \o JSON_members(Tail(obj))

JSON_stringify(obj) == <<"{">> \o JSON_members(obj) \o <<"}">>

JSON_fail == [ok |-> FALSE, obj |-> <<>>]

RECURSIVE JSON_skipWs(_, _)
JSON_skipWs(t, i) == IF i <= Len(t) /\ t[i] = " " THEN JSON_skipWs(t, i + 1) ELSE i

\* The string literal whose opening quote is at i - 1.
RECURSIVE JSON_scanString(_, _, _)
JSON_scanString(t, i, acc) ==
    IF i > Len(t) THEN [ok |-> FALSE, val |-> <<>>, next |-> i]
    ELSE IF t[i] = "\"" THEN [ok |-> TRUE, val |-> acc, next |-> i + 1]
    ELSE IF t[i] = "\\"
         THEN IF i + 1 <= Len(t) /\ t[i + 1] \in {"\"", "\\", "/"}
              THEN JSON_scanString(t, i + 2, Append(acc, t[i + 1]))
              ELSE [ok |-> FALSE, val |-> <<>>, next |-> i]
    ELSE JSON_scanString(t, i + 1, Append(acc, t[i]))

\* The members of an object from position i on, up to the closing brace and
\* the end of the text.
RECURSIVE JSON_parseMembers(_, _, _)
JSON_parseMembers(t, i, obj) ==
    LET i1 == JSON_skipWs(t, i) IN
    IF i1 > Len(t) \/ t[i1] # "\"" THEN JSON_fail ELSE
    LET k == JSON_scanString(t, i1 + 1, <<>>) IN
    IF ~k.ok THEN JSON_fail ELSE
    LET i2 == JSON_skipWs(t, k.next) IN
    IF i2 > Len(t) \/ t[i2] # ":" THEN JSON_fail ELSE
    LET i3 == JSON_skipWs(t, i2 + 1) IN
    IF i3 > Len(t) \/ t[i3] # "\"" THEN JSON_fail ELSE
    LET v == JSON_scanString(t, i3 + 1, <<>>) IN
    IF ~v.ok THEN JSON_fail ELSE
    LET i4 == JSON_skipWs(t, v.next)
        obj2 == ObjDefine(obj, k.val, v.val)
    IN  IF i4 > Len(t) THEN JSON_fail
        ELSE IF t[i4] = "," THEN JSON_parseMembers(t, i4 + 1, obj2)
        ELSE IF t[i4] = "}" /\ JSON_skipWs(t, i4 + 1) > Len(t)
             THEN [ok |-> TRUE, obj |-> obj2]
        ELSE JSON_fail

\* JSON.parse(t): [ok |-> TRUE, obj] or, for a SyntaxError, [ok |-> FALSE].
\* The texts of the model are objects of string values or not JSON at all.
JSON_parse(t) ==
    LET i1 == JSON_skipWs(t, 1) IN
    IF i1 > Len(t) \/ t[i1] # "{" THEN JSON_fail ELSE
    LET i2 == JSON_skipWs(t, i1 + 1) IN
    IF i2 <= Len(t) /\ t[i2] = "}"
    THEN IF JSON_skipWs(t, i2 + 1) > Len(t) THEN [ok |-> TRUE, obj |-> <<>>] ELSE JSON_fail
    ELSE JSON_parseMembers(t, i2, <<>>)

(***************************************************************************)
(* The host: window.localStorage / window.sessionStorage (a Storage is a   *)
(* function from the names of its entries to their text), the clock, and   *)
(* document.cookie (the jar is the sequence of the page's cookies).        *)
(***************************************************************************)
\* Storage.prototype.getItem
Storage_getItem(store, name) ==
    IF name \in DOMAIN store THEN Str(store[name]) ELSE Null

\* Storage.prototype.setItem
Storage_setItem(store, name, text) ==
    [n \in (DOMAIN store) \cup {name} |-> IF n = name THEN text ELSE store[n]]

\* Storage.prototype.removeItem
Storage_removeItem(store, name) == [n \in (DOMAIN store) \ {name} |-> store[n]]

\* Decimal digits of a natural number.
DigitChars == <<"0", "1", "2", "3", "4", "5", "6", "7", "8", "9">>
RECURSIVE Digits(_)
Digits(n) == IF n < 10 THEN <<DigitChars[n + 1]>> ELSE Digits(n \div 10) \o <<DigitChars[(n % 10) + 1]>>

DigitValue(c) == CHOOSE d \in 0..9 : DigitChars[d + 1] = c
IsDigits(s) == s # <<>> /\ \A i \in 1..Len(s) : \E d \in 1..10 : DigitChars[d] = s[i]
RECURSIVE Number(_)
Number(s) == IF s = <<>> THEN 0 ELSE 10 * Number(SubSeq(s, 1, Len(s) - 1)) + DigitValue(s[Len(s)])

\* Date.prototype.toUTCString names the instant to the whole second; the
\* model writes the second count in decimal where the host writes a calendar
\* date.  Date_parse reads it back as milliseconds.
GMT == <<" ", "G", "M", "T">>
Date_toUTCString(ms) == Digits(ms \div 1000) \o GMT
Date_parse(s) ==
    LET n == Len(s) - Len(GMT) IN
    IF n >= 1 /\ SubSeq(s, n + 1, Len(s)) = GMT /\ IsDigits(SubSeq(s, 1, n))
    THEN [ok |-> TRUE, ms |-> Number(SubSeq(s, 1, n)) * 1000]
    ELSE [ok |-> FALSE, ms |-> 0]

\* The cookies of the jar the page can see at time now.
LiveCookies(jar, now) == SelectSeq(jar, LAMBDA c : c.session \/ c.expires > now)

RECURSIVE CookiePairs(_)
CookiePairs(jar) ==
    IF jar = <<>> THEN <<>>
    ELSE jar[1].name \o <<"=">> \o jar[1].value
         \o (IF Len(jar) > 1 THEN <<";", " ">> ELSE <<>>) \o CookiePairs(Tail(jar))

\* Reading document.cookie: "name=value; name=value" of the live cookies.
Document_cookie_get(jar, now) == CookiePairs(LiveCookies(jar, now))

Attr_expires == <<"e", "x", "p", "i", "r", "e", "s", "=">>
Attr_path == <<"p", "a", "t", "h", "=">>
Attr_maxAge == <<"m", "a", "x", "-", "a", "g", "e", "=">>

\* The value of the last attribute of segs that starts with prefix.
RECURSIVE LastAttribute(_, _, _)
LastAttribute(segs, prefix, found) ==
    IF segs = <<>> THEN found
    ELSE LET a == TrimLeft(Head(segs)) IN
         LastAttribute(Tail(segs), prefix,
                       IF StartsWith(a, prefix)
                       THEN [ok |-> TRUE, val |-> TrimRight(SubSeq(a, Len(prefix) + 1, Len(a)))]
                       ELSE found)

\* Assigning str to document.cookie: the text up to the first ";" is
\* name=value, the segments after it are attributes.  A max-age attribute of
\* digits sets the expiry in seconds from now and has precedence over
\* expires.  A cookie whose expiry is not in the future is deleted, otherwise
\* it replaces the cookie of that name or is added to the jar.
Document_cookie_set(jar, str, now) ==
    LET segs == Split(str, ";")
        pair == segs[1]
        eq == IndexOfChar(pair, "=", 1)
        name == TrimRight(TrimLeft(SubSeq(pair, 1, eq - 1)))
        value == TrimRight(TrimLeft(SubSeq(pair, eq + 1, Len(pair))))
        exp == LastAttribute(Tail(segs), Attr_expires, [ok |-> FALSE, val |-> <<>>])
        age == LastAttribute(Tail(segs), Attr_maxAge, [ok |-> FALSE, val |-> <<>>])
        path == LastAttribute(Tail(segs), Attr_path, [ok |-> FALSE, val |-> <<"/">>])
        date == IF age.ok /\ IsDigits(age.val)
                THEN [ok |-> TRUE, ms |-> now + Number(age.val) * 1000]
                ELSE IF exp.ok THEN Date_parse(exp.val) ELSE [ok |-> FALSE, ms |-> 0]
        cookie == [name |-> name, value |-> value, session |-> ~date.ok,
                   expires |-> date.ms, path |-> path.val]
        others == SelectSeq(jar, LAMBDA c : c.name # name)
        at == IF \E i \in 1..Len(jar) : jar[i].name = name
              THEN CHOOSE i \in 1..Len(jar) : jar[i].name = name ELSE 0
    IN  IF eq > Len(pair) THEN jar
        ELSE IF date.ok /\ date.ms <= now THEN others
        ELSE IF at = 0 THEN Append(jar, cookie)
        ELSE [jar EXCEPT ![at] = cookie]

\* decodeURIComponent: %XX escapes (the ones of the model's alphabet) are
\* decoded; a "%" not followed by two hexadecimal digits is a URIError.
HexChars == {"0", "1", "2", "3", "4", "5", "6", "7", "8", "9",
             "A", "B", "C", "D", "E", "F", "a", "b", "c", "d", "e", "f"}
PercentCode(h1, h2) ==
    CASE <<h1, h2>> = <<"2", "5">> -> "%"
      [] <<h1, h2>> = <<"2", "2">> -> "\""
      [] <<h1, h2>> = <<"2", "0">> -> " "
      [] <<h1, h2>> \in {<<"3", "B">>, <<"3", "b">>} -> ";"
      [] <<h1, h2>> \in {<<"3", "D">>, <<"3", "d">>} -> "="
      [] <<h1, h2>> = <<"3", "1">> -> "1"
      [] <<h1, h2>> = <<"6", "1">> -> "a"

RECURSIVE decodeURIComponent(_)
decodeURIComponent(s) ==
    IF s = <<>> THEN [ok |-> TRUE, val |-> <<>>]
    ELSE IF Head(s) # "%"
         THEN LET r == decodeURIComponent(Tail(s)) IN
              [ok |-> r.ok, val |-> IF r.ok THEN <<Head(s)>> \o r.val ELSE <<>>]
    ELSE IF Len(s) >= 3 /\ s[2] \in HexChars /\ s[3] \in HexChars
         THEN LET r == decodeURIComponent(SubSeq(s, 4, Len(s))) IN
              [ok |-> r.ok, val |-> IF r.ok THEN <<PercentCode(s[2], s[3])>> \o r.val ELSE <<>>]
    ELSE [ok |-> FALSE, val |-> <<>>]

(***************************************************************************)
(* The world a call acts on: the host objects, the instances of the two    *)
(* storage classes (heaps indexed by reference) and the classes' static    *)
(* `storage` fields (0: undefined, else a reference into the heap).        *)
(*   [localStorage, sessionStorage, cookieJar, now,                        *)
(*    memHeap, MemoryStorage_storage, cookieHeap, CookieStorage_storage]   *)
(* A method is modelled as an operator from the world to [world, ret].     *)
(***************************************************************************)
Done(world, ret) == [world |-> world, ret |-> ret]

MsPerDay == 24 * 60 * 60 * 1000
\* getUpdatedTime's default numDays.
DefaultNumDays == 7

\* CookieStorage.getUpdatedTime(numDays)
CookieStorage_getUpdatedTime(world, numDays) ==
    Date_toUTCString(world.now + numDays * MsPerDay)

\* new CookieStorage(cookieName): the instance already constructed, if any;
\* else a new instance, recorded in CookieStorage.storage.
CookieStorage_new(world, cookieName) ==
    IF world.CookieStorage_storage # 0
    THEN [world |-> world, ref |-> world.CookieStorage_storage]
    ELSE LET heap == Append(world.cookieHeap, [STORAGE_NAME |-> cookieName]) IN
         [world |-> [world EXCEPT !.cookieHeap = heap,
                                  !.CookieStorage_storage = Len(heap)],
          ref |-> Len(heap)]

\* CookieStorage.getItem(): the value of the first cookie named STORAGE_NAME
\* in the decoded document.cookie, or "".  [ok, val]; ~ok is a URIError.
RECURSIVE FindCookie(_, _)
FindCookie(cookies, name) ==
    IF cookies = <<>> THEN <<>>
    ELSE LET cookie == TrimLeft(Head(cookies)) IN
         IF StartsWith(cookie, name)
         THEN SubSeq(cookie, Len(name) + 1, Len(cookie))
         ELSE FindCookie(Tail(cookies), name)

CookieStorage_read(this, world) ==
    LET name == this.STORAGE_NAME \o <<"=">>
        decodedCookie == decodeURIComponent(Document_cookie_get(world.cookieJar, world.now))
    IN  IF ~decodedCookie.ok THEN [ok |-> FALSE, val |-> <<>>]
        ELSE [ok |-> TRUE, val |-> FindCookie(Split(decodedCookie.val, ";"), name)]

CookieStorage_getItem(this, world) ==
    LET r == CookieStorage_read(this, world) IN
    IF r.ok THEN Done(world, Return(Str(r.val))) ELSE Done(world, Throw("URIError", <<>>))

\* The assignment document.cookie = STORAGE_NAME=<json>;expires=<date>;path=/
CookieStorage_write(this, world, cookieJson) ==
    LET expires == Attr_expires \o CookieStorage_getUpdatedTime(world, DefaultNumDays)
        cookieStr == this.STORAGE_NAME \o <<"=">> \o JSON_stringify(cookieJson) \o <<";">>
                     \o expires \o <<";">> \o Attr_path \o <<"/">>
    IN  [world EXCEPT !.cookieJar = Document_cookie_set(world.cookieJar, cookieStr, world.now)]

\* Faulty variant of CookieStorage_setItem: a cookie value that does not parse
\* is taken for the empty object.
CookieStorage_setItem_resilient(this, world, key, value) ==
    LET existingCookie == CookieStorage_read(this, world)
        parsed == IF existingCookie.ok /\ existingCookie.val # <<>>
                  THEN JSON_parse(existingCookie.val) ELSE JSON_fail
        cookieJson == IF parsed.ok THEN parsed.obj ELSE <<>>
    IN  IF ~existingCookie.ok THEN Done(world, Throw("URIError", <<>>))
        ELSE Done(CookieStorage_write(this, world, ObjAssign(cookieJson, key, value)),
                  Return(Undefined))

\* CookieStorage.setItem(key, value)
CookieStorage_setItem(this, world, key, value) ==
    LET existingCookie == CookieStorage_read(this, world) IN
    IF ~existingCookie.ok THEN Done(world, Throw("URIError", <<>>))
    ELSE IF existingCookie.val # <<>>
    THEN LET parsed == JSON_parse(existingCookie.val) IN
         IF ~parsed.ok THEN Done(world, Throw("SyntaxError", <<>>))
         ELSE Done(CookieStorage_write(this, world, ObjAssign(parsed.obj, key, value)),
                   Return(Undefined))
    ELSE Done(CookieStorage_write(this, world, ObjAssign(<<>>, key, value)), Return(Undefined))

\* CookieStorage.removeItem(key)
CookieStorage_removeItem(this, world, key) ==
    LET existingCookie == CookieStorage_read(this, world) IN
    IF ~existingCookie.ok THEN Done(world, Throw("URIError", <<>>))
    ELSE IF existingCookie.val # <<>>
    THEN LET parsed == JSON_parse(existingCookie.val) IN
         IF ~parsed.ok THEN Done(world, Throw("SyntaxError", <<>>))
         ELSE Done(CookieStorage_write(this, world, ObjDelete(parsed.obj, key)),
                   Return(Undefined))
    ELSE Done(CookieStorage_write(this, world, <<>>), Return(Undefined))

\* Faulty variant of MemoryStorage_new: the constructor without its singleton check
\* makes a new instance, with an empty Map, on every call.
MemoryStorage_new_always(world) ==
    LET heap == Append(world.memHeap, [memStorage |-> [k \in {} |-> <<>>]]) IN
    [world |-> [world EXCEPT !.memHeap = heap, !.MemoryStorage_storage = Len(heap)],
     ref |-> Len(heap)]

\* new MemoryStorage(): the instance already constructed, if any; else a new
\* instance with an empty Map, recorded in MemoryStorage.storage.  A Map is
\* modelled as the function from its keys to their values.
EmptyMap == [k \in {} |-> <<>>]

MemoryStorage_new(world) ==
    IF world.MemoryStorage_storage # 0
    THEN [world |-> world, ref |-> world.MemoryStorage_storage]
    ELSE LET heap == Append(world.memHeap, [memStorage |-> EmptyMap]) IN
         [world |-> [world EXCEPT !.memHeap = heap,
                                  !.MemoryStorage_storage = Len(heap)],
          ref |-> Len(heap)]

\* MemoryStorage.setItem(key, value)
MemoryStorage_setItem(ref, world, key, value) ==
    LET m == world.memHeap[ref].memStorage
        m2 == [k \in (DOMAIN m) \cup {key} |-> IF k = key THEN value ELSE m[k]]
    IN  Done([world EXCEPT !.memHeap[ref].memStorage = m2], Return(Undefined))

\* MemoryStorage.getItem(key)
MemoryStorage_getItem(ref, world, key) ==
    LET m == world.memHeap[ref].memStorage
        value == IF key \in DOMAIN m THEN Str(m[key]) ELSE Undefined
    IN  IF Truthy(value) THEN Done(world, Return(value)) ELSE Done(world, Return(Null))

\* MemoryStorage.removeItem(key)
MemoryStorage_removeItem(ref, world, key) ==
    LET m == world.memHeap[ref].memStorage
        m2 == [k \in (DOMAIN m) \ {key} |-> m[k]]
    IN  Done([world EXCEPT !.memHeap[ref].memStorage = m2], Return(Undefined))

(***************************************************************************)
(* The facade's `storage` variable refers to window.sessionStorage,        *)
(* window.localStorage, a MemoryStorage or a CookieStorage; a call         *)
(* storage.m(...) runs the method of the object referred to.               *)
(***************************************************************************)
NativeRef(name) == [class |-> "Storage", id |-> name, ref |-> 0]
MemoryRef(ref) == [class |-> "MemoryStorage", id |-> "", ref |-> ref]
CookieRef(ref) == [class |-> "CookieStorage", id |-> "", ref |-> ref]

NativeStore(world, id) ==
    IF id = "localStorage" THEN world.localStorage ELSE world.sessionStorage

\* storage.setItem(a, b)
Call_setItem(storage, world, a, b) ==
    CASE storage.class = "MemoryStorage" -> MemoryStorage_setItem(storage.ref, world, a, b)
      [] storage.class = "CookieStorage" ->
            CookieStorage_setItem(world.cookieHeap[storage.ref], world, a, b)
      [] storage.class = "Storage" /\ storage.id = "localStorage" ->
            Done([world EXCEPT !.localStorage = Storage_setItem(@, a, b)], Return(Undefined))
      [] storage.class = "Storage" /\ storage.id = "sessionStorage" ->
            Done([world EXCEPT !.sessionStorage = Storage_setItem(@, a, b)], Return(Undefined))

\* storage.getItem(a)
Call_getItem(storage, world, a) ==
    CASE storage.class = "MemoryStorage" -> MemoryStorage_getItem(storage.ref, world, a)
      [] storage.class = "CookieStorage" ->
            CookieStorage_getItem(world.cookieHeap[storage.ref], world)
      [] storage.class = "Storage" ->
            Done(world, Return(Storage_getItem(NativeStore(world, storage.id), a)))

\* storage.removeItem(a)
Call_removeItem(storage, world, a) ==
    CASE storage.class = "MemoryStorage" -> MemoryStorage_removeItem(storage.ref, world, a)
      [] storage.class = "CookieStorage" ->
            CookieStorage_removeItem(world.cookieHeap[storage.ref], world, a)
      [] storage.class = "Storage" /\ storage.id = "localStorage" ->
            Done([world EXCEPT !.localStorage = Storage_removeItem(@, a)], Return(Undefined))
      [] storage.class = "Storage" /\ storage.id = "sessionStorage" ->
            Done([world EXCEPT !.sessionStorage = Storage_removeItem(@, a)], Return(Undefined))

(***************************************************************************)
(* createClientStorage(allowedKeys): the facade's closure variables.       *)
(* allowedKeys is [given, list]: given is FALSE when the argument was      *)
(* omitted (undefined).                                                    *)
(***************************************************************************)
STORAGE_NAME ==
    <<"_", "_", "r", "e", "a", "c", "t", "_", "_", "s", "t", "o", "r", "a", "g", "e">>

NoAllowedKeys == [given |-> FALSE, list |-> <<>>]
AllowedKeys(list) == [given |-> TRUE, list |-> list]

\* Faulty variant of createClientStorage: the facade starts on localStorage.
createClientStorage_local(allowedKeys) ==
    [allowedKeys |-> allowedKeys,
     storage |-> NativeRef("localStorage"),
     storageType |-> "localStorage"]

createClientStorage(allowedKeys) ==
    [allowedKeys |-> allowedKeys,
     storage |-> NativeRef("sessionStorage"),
     storageType |-> "sessionStorage"]

\* Faulty variant of Disallowed: the gate tests allowedKeys.length, so that an empty
\* list permits every key.
Disallowed_lengthTest(fac, key) ==
    /\ fac.allowedKeys.given
    /\ fac.allowedKeys.list # <<>>
    /\ \A i \in 1..Len(fac.allowedKeys.list) : fac.allowedKeys.list[i] # key

\* allowedKeys && !allowedKeys.includes(key): an array, also the empty one, is
\* truthy.
Includes(list, key) == \E i \in 1..Len(list) : list[i] = key
Disallowed(fac, key) == fac.allowedKeys.given /\ ~Includes(fac.allowedKeys.list, key)

\* new Error(`Key '${key}' is not allowed.`)
NotAllowedError(key) ==
    Throw("Error", <<"K", "e", "y", " ", "'">> \o key
                   \o <<"'", " ", "i", "s", " ", "n", "o", "t", " ",
                        "a", "l", "l", "o", "w", "e", "d", ".">>)

\* Faulty variant of setStorage: the localStorage case assigns sessionStorage.
setStorage_localIsSession(fac, world, storeName) ==
    CASE storeName = "cookieStorage" ->
            LET c == CookieStorage_new(world, STORAGE_NAME) IN
            [world |-> c.world,
             fac |-> [fac EXCEPT !.storageType = storeName, !.storage = CookieRef(c.ref)]]
      [] storeName = "memoryStorage" ->
            LET c == MemoryStorage_new(world) IN
            [world |-> c.world,
             fac |-> [fac EXCEPT !.storageType = storeName, !.storage = MemoryRef(c.ref)]]
      [] OTHER ->
            [world |-> world,
             fac |-> [fac EXCEPT !.storageType = storeName,
                                 !.storage = NativeRef("sessionStorage")]]

\* Faulty variant of setStorage: the switch has no default case, so an unrecognised
\* storeName leaves storage as it was.
setStorage_noDefault(fac, world, storeName) ==
    CASE storeName = "cookieStorage" ->
            LET c == CookieStorage_new(world, STORAGE_NAME) IN
            [world |-> c.world,
             fac |-> [fac EXCEPT !.storageType = storeName, !.storage = CookieRef(c.ref)]]
      [] storeName = "memoryStorage" ->
            LET c == MemoryStorage_new(world) IN
            [world |-> c.world,
             fac |-> [fac EXCEPT !.storageType = storeName, !.storage = MemoryRef(c.ref)]]
      [] storeName \in {"localStorage", "sessionStorage"} ->
            [world |-> world,
             fac |-> [fac EXCEPT !.storageType = storeName, !.storage = NativeRef(storeName)]]
      [] OTHER ->
            [world |-> world, fac |-> [fac EXCEPT !.storageType = storeName]]

\* setStorage(storeName): [world, fac], the facade with its new storageType
\* and storage.
setStorage(fac, world, storeName) ==
    CASE storeName = "cookieStorage" ->
            LET c == CookieStorage_new(world, STORAGE_NAME) IN
            [world |-> c.world,
             fac |-> [fac EXCEPT !.storageType = storeName, !.storage = CookieRef(c.ref)]]
      [] storeName = "memoryStorage" ->
            LET c == MemoryStorage_new(world) IN
            [world |-> c.world,
             fac |-> [fac EXCEPT !.storageType = storeName, !.storage = MemoryRef(c.ref)]]
      [] storeName = "localStorage" ->
            [world |-> world,
             fac |-> [fac EXCEPT !.storageType = storeName,
                                 !.storage = NativeRef("localStorage")]]
      [] storeName = "sessionStorage" ->
            [world |-> world,
             fac |-> [fac EXCEPT !.storageType = storeName,
                                 !.storage = NativeRef("sessionStorage")]]
      [] OTHER ->
            [world |-> world,
             fac |-> [fac EXCEPT !.storageType = storeName,
                                 !.storage = NativeRef("sessionStorage")]]

\* Faulty variant of setItem: the native stores are written like the other
\* backends, the key being the name of the entry.
setItem_direct(fac, world, key, value) ==
    IF Disallowed(fac, key) THEN Done(world, NotAllowedError(key))
    ELSE LET r == Call_setItem(fac.storage, world, key, value) IN
         IF r.ret.kind = "throw" THEN r ELSE Done(r.world, Return(Undefined))

\* Faulty variant of setItem: a root entry that does not parse is taken for the
\* empty object and overwritten.
setItem_resilient(fac, world, key, value) ==
    IF Disallowed(fac, key) THEN Done(world, NotAllowedError(key))
    ELSE IF fac.storageType \in {"memoryStorage", "cookieStorage"}
    THEN LET r == Call_setItem(fac.storage, world, key, value) IN
         IF r.ret.kind = "throw" THEN r ELSE Done(r.world, Return(Undefined))
    ELSE LET storeValue == Call_getItem(fac.storage, world, STORAGE_NAME).ret
             parsed == IF Truthy(storeValue) THEN JSON_parse(storeValue.s) ELSE JSON_fail
             oldValue == IF parsed.ok THEN parsed.obj ELSE <<>>
         IN  Done(Call_setItem(fac.storage, world, STORAGE_NAME,
                       JSON_stringify(ObjAssign(oldValue, key, value))).world,
                  Return(Undefined))

\* setItem(key, value)
setItem(fac, world, key, value) ==
    IF Disallowed(fac, key) THEN Done(world, NotAllowedError(key))
    ELSE IF fac.storageType \in {"memoryStorage", "cookieStorage"}
    THEN LET r == Call_setItem(fac.storage, world, key, value) IN
         IF r.ret.kind = "throw" THEN r ELSE Done(r.world, Return(Undefined))
    ELSE LET storeValue == Call_getItem(fac.storage, world, STORAGE_NAME).ret IN
         IF Truthy(storeValue)
         THEN LET parsed == JSON_parse(storeValue.s) IN
              IF ~parsed.ok THEN Done(world, Throw("SyntaxError", <<>>))
              ELSE Done(Call_setItem(fac.storage, world, STORAGE_NAME,
                            JSON_stringify(ObjAssign(parsed.obj, key, value))).world,
                        Return(Undefined))
         ELSE Done(Call_setItem(fac.storage, world, STORAGE_NAME,
                       JSON_stringify(ObjDefine(<<>>, key, value))).world,
                   Return(Undefined))

\* Faulty variant of getItem: on the native stores a key the stored object
\* holds is returned whatever its value, null only for a key it does not hold.
getItem_ownValue(fac, world, key) ==
    IF Disallowed(fac, key) THEN Done(world, NotAllowedError(key))
    ELSE IF fac.storageType \in {"memoryStorage", "cookieStorage"}
    THEN Call_getItem(fac.storage, world, key)
    ELSE LET storageValue == Call_getItem(fac.storage, world, STORAGE_NAME).ret IN
         IF Truthy(storageValue)
         THEN LET parsed == JSON_parse(storageValue.s) IN
              IF ~parsed.ok THEN Done(world, Throw("SyntaxError", <<>>))
              ELSE LET v == ObjGet(parsed.obj, key) IN
                   Done(world, Return(IF HasOwn(parsed.obj, key) \/ Truthy(v) THEN v ELSE Null))
         ELSE Done(world, Return(Null))

\* Faulty variant of getItem: with the cookie backend the cookie's map is
\* parsed and the value of the key returned, as for the native stores.
getItem_perKey(fac, world, key) ==
    IF Disallowed(fac, key) THEN Done(world, NotAllowedError(key))
    ELSE IF fac.storageType = "memoryStorage"
    THEN Call_getItem(fac.storage, world, key)
    ELSE LET storageValue == Call_getItem(fac.storage, world, STORAGE_NAME).ret IN
         IF storageValue.kind = "throw" THEN Done(world, storageValue)
         ELSE IF Truthy(storageValue)
         THEN LET parsed == JSON_parse(storageValue.s) IN
              IF ~parsed.ok THEN Done(world, Throw("SyntaxError", <<>>))
              ELSE LET v == ObjGet(parsed.obj, key) IN
                   Done(world, Return(IF Truthy(v) THEN v ELSE Null))
         ELSE Done(world, Return(Null))

\* Faulty variant of getItem: a read of the cookie backend writes the cookie
\* back, which renews its expiry.
getItem_refresh(fac, world, key) ==
    IF Disallowed(fac, key) THEN Done(world, NotAllowedError(key))
    ELSE IF fac.storageType = "cookieStorage"
    THEN LET this == world.cookieHeap[fac.storage.ref]
             r == CookieStorage_getItem(this, world)
             parsed == IF r.ret.kind = "return" /\ r.ret.s # <<>>
                       THEN JSON_parse(r.ret.s) ELSE JSON_fail
         IN  IF parsed.ok THEN Done(CookieStorage_write(this, world, parsed.obj), r.ret)
             ELSE r
    ELSE IF fac.storageType = "memoryStorage"
    THEN Call_getItem(fac.storage, world, key)
    ELSE LET storageValue == Call_getItem(fac.storage, world, STORAGE_NAME).ret IN
         IF Truthy(storageValue)
         THEN LET parsed == JSON_parse(storageValue.s) IN
              IF ~parsed.ok THEN Done(world, Throw("SyntaxError", <<>>))
              ELSE LET v == ObjGet(parsed.obj, key) IN
                   Done(world, Return(IF Truthy(v) THEN v ELSE Null))
         ELSE Done(world, Return(Null))

\* getItem(key)
getItem(fac, world, key) ==
    IF Disallowed(fac, key) THEN Done(world, NotAllowedError(key))
    ELSE IF fac.storageType \in {"memoryStorage", "cookieStorage"}
    THEN Call_getItem(fac.storage, world, key)
    ELSE LET storageValue == Call_getItem(fac.storage, world, STORAGE_NAME).ret IN
         IF Truthy(storageValue)
         THEN LET parsed == JSON_parse(storageValue.s) IN
              IF ~parsed.ok THEN Done(world, Throw("SyntaxError", <<>>))
              ELSE LET v == ObjGet(parsed.obj, key) IN
                   Done(world, Return(IF Truthy(v) THEN v ELSE Null))
         ELSE Done(world, Return(Null))

\* Faulty variant of removeItem: without a root entry the removal starts from
\* the empty object and writes it back.
removeItem_createsRoot(fac, world, key) ==
    IF Disallowed(fac, key) THEN Done(world, NotAllowedError(key))
    ELSE IF fac.storageType \in {"memoryStorage", "cookieStorage"}
    THEN LET r == Call_removeItem(fac.storage, world, key) IN
         IF r.ret.kind = "throw" THEN r ELSE Done(r.world, Return(Undefined))
    ELSE LET storeValue == Call_getItem(fac.storage, world, STORAGE_NAME).ret
             parsed == IF Truthy(storeValue) THEN JSON_parse(storeValue.s)
                       ELSE [ok |-> TRUE, obj |-> <<>>]
         IN  IF ~parsed.ok THEN Done(world, Throw("SyntaxError", <<>>))
             ELSE Done(Call_setItem(fac.storage, world, STORAGE_NAME,
                           JSON_stringify(ObjDelete(parsed.obj, key))).world,
                       Return(Undefined))

\* Faulty variant of removeItem: the allow-list is tested after the backend
\* was accessed.
removeItem_gateLast(fac, world, key) ==
    LET done ==
          IF fac.storageType \in {"memoryStorage", "cookieStorage"}
          THEN Call_removeItem(fac.storage, world, key)
          ELSE LET storeValue == Call_getItem(fac.storage, world, STORAGE_NAME).ret IN
               IF Truthy(storeValue)
               THEN LET parsed == JSON_parse(storeValue.s) IN
                    IF ~parsed.ok THEN Done(world, Throw("SyntaxError", <<>>))
                    ELSE Done(Call_setItem(fac.storage, world, STORAGE_NAME,
                                  JSON_stringify(ObjDelete(parsed.obj, key))).world,
                              Return(Undefined))
               ELSE Done(world, Return(Undefined))
    IN  IF done.ret.kind = "throw" THEN done
        ELSE IF Disallowed(fac, key) THEN Done(done.world, NotAllowedError(key))
        ELSE Done(done.world, Return(Undefined))

\* removeItem(key)
removeItem(fac, world, key) ==
    IF Disallowed(fac, key) THEN Done(world, NotAllowedError(key))
    ELSE IF fac.storageType \in {"memoryStorage", "cookieStorage"}
    THEN LET r == Call_removeItem(fac.storage, world, key) IN
         IF r.ret.kind = "throw" THEN r ELSE Done(r.world, Return(Undefined))
    ELSE LET storeValue == Call_getItem(fac.storage, world, STORAGE_NAME).ret IN
         IF Truthy(storeValue)
         THEN LET parsed == JSON_parse(storeValue.s) IN
              IF ~parsed.ok THEN Done(world, Throw("SyntaxError", <<>>))
              ELSE Done(Call_setItem(fac.storage, world, STORAGE_NAME,
                            JSON_stringify(ObjDelete(parsed.obj, key))).world,
                        Return(Undefined))
         ELSE Done(world, Return(Undefined))

(***************************************************************************)
(* setItem as the two steps another execution context can see.  A setItem  *)
(* on a native store or on the cookie reads the backend                    *)
(* (storage.getItem(STORAGE_NAME), document.cookie), computes the text to  *)
(* store from what it read, and writes it (storage.setItem(STORAGE_NAME,   *)
(* ...), document.cookie = ...).  Nothing is locked in between and nothing *)
(* is read again.  The call between its two steps is                       *)
(* [pc, key, value, str]: str is the text it is about to write.            *)
(***************************************************************************)
NoCall == [pc |-> "idle", key |-> <<>>, value |-> <<>>, str |-> <<>>]
Writing(key, value, str) == [pc |-> "write", key |-> key, value |-> value, str |-> str]

\* The outcome of the first step: [done, world, ret, str].  done: the call is
\* over (it threw, or its backend has no separate read); else str is the text
\* to write.
Finished(world, ret) == [done |-> TRUE, world |-> world, ret |-> ret, str |-> <<>>]
ToWrite(world, str) == [done |-> FALSE, world |-> world, ret |-> Return(Undefined), str |-> str]

\* CookieStorage.setItem up to the assignment to document.cookie: cookieStr.
CookieStorage_setItem_read(this, world, key, value) ==
    LET expires == Attr_expires \o CookieStorage_getUpdatedTime(world, DefaultNumDays)
        existingCookie == CookieStorage_read(this, world)
        cookieStr(cookieJson) ==
            this.STORAGE_NAME \o <<"=">> \o JSON_stringify(cookieJson) \o <<";">>
            \o expires \o <<";">> \o Attr_path \o <<"/">>
    IN  IF ~existingCookie.ok THEN Finished(world, Throw("URIError", <<>>))
        ELSE IF existingCookie.val # <<>>
        THEN LET parsed == JSON_parse(existingCookie.val) IN
             IF ~parsed.ok THEN Finished(world, Throw("SyntaxError", <<>>))
             ELSE ToWrite(world, cookieStr(ObjAssign(parsed.obj, key, value)))
        ELSE ToWrite(world, cookieStr(ObjAssign(<<>>, key, value)))

\* setItem(key, value) up to its write: the gate, the read of the backend
\* and the text built from it.  Map.set of the memory backend has no read
\* before it: that call is over in one step.
setItem_read(fac, world, key, value) ==
    IF Disallowed(fac, key) THEN Finished(world, NotAllowedError(key))
    ELSE IF fac.storageType = "memoryStorage"
    THEN LET r == Call_setItem(fac.storage, world, key, value) IN Finished(r.world, r.ret)
    ELSE IF fac.storageType = "cookieStorage"
    THEN CookieStorage_setItem_read(world.cookieHeap[fac.storage.ref], world, key, value)
    ELSE LET storeValue == Call_getItem(fac.storage, world, STORAGE_NAME).ret IN
         IF Truthy(storeValue)
         THEN LET parsed == JSON_parse(storeValue.s) IN
              IF ~parsed.ok THEN Finished(world, Throw("SyntaxError", <<>>))
              ELSE ToWrite(world, JSON_stringify(ObjAssign(parsed.obj, key, value)))
         ELSE ToWrite(world, JSON_stringify(ObjDefine(<<>>, key, value)))

\* Faulty variant of setItem_write: before it writes, the call reads the
\* backend again and sets its key in what is there now.
setItem_write_reread(fac, world, call) ==
    LET r == setItem(fac, world, call.key, call.value) IN
    Done(r.world, Return(Undefined))

\* The write of a setItem: document.cookie = cookieStr, or
\* storage.setItem(STORAGE_NAME, <text>) on the native store.
setItem_write(fac, world, call) ==
    IF fac.storageType = "cookieStorage"
    THEN Done([world EXCEPT !.cookieJar = Document_cookie_set(world.cookieJar, call.str,
                                                              world.now)],
              Return(Undefined))
    ELSE Done(Call_setItem(fac.storage, world, STORAGE_NAME, call.str).world,
              Return(Undefined))

(***************************************************************************)
(* The inputs of the model: the keys and values the callers pass, the      *)
(* allow-lists the facades are created with and the arguments of           *)
(* setStorage.  toString is a key every parsed object inherits; "" is the  *)
(* falsy string; ";" is the character that ends the name=value part of a   *)
(* string assigned to document.cookie, and what follows it up to the next  *)
(* ";" is read as an attribute of the cookie; %22 is the URL-encoding of   *)
(* the double quote, which decodeURIComponent decodes.                     *)
(***************************************************************************)
Key_a == <<"a">>
Keys == {Key_a, Str_toString}
\* ;max-age=0;
Value_attribute == <<";", "m", "a", "x", "-", "a", "g", "e", "=", "0", ";">>
\* %22,%22b%22:%22  which decodeURIComponent turns into  ","b":"
Value_encoded ==
    <<"%", "2", "2", ",", "%", "2", "2", "b", "%", "2", "2", ":", "%", "2", "2">>
Values == {<<>>, <<"1">>, Value_attribute, Value_encoded}
\* createClientStorage(), createClientStorage(["a"]), createClientStorage([])
AllowLists == <<NoAllowedKeys, AllowedKeys(<<Key_a>>), AllowedKeys(<<>>)>>
StorageTypes == {"localStorage", "sessionStorage", "memoryStorage", "cookieStorage"}
\* A value outside the StorageType union, passed by a caller the type checker
\* did not stop.
UnknownType == "indexedDB"
Facades == 1..NumFacades

\* What the page holds besides the facade's data: an entry of the
\* application in each native store and a session cookie of the site.
OtherName == <<"t", "h", "e", "m", "e">>
OtherText == <<"d", "a", "r", "k">>
OtherStore == [n \in {OtherName} |-> OtherText]
OtherCookie == [name |-> <<"s", "i", "d">>, value |-> <<"x">>, session |-> TRUE,
                expires |-> 0, path |-> <<"/">>]

VARIABLES
    localStorage,           \* window.localStorage: name -> text
    sessionStorage,         \* window.sessionStorage: name -> text
    cookieJar,              \* the cookies behind document.cookie
    now,                    \* Date.now(), in milliseconds
    memHeap,                \* the MemoryStorage instances
    MemoryStorage_storage,  \* static MemoryStorage.storage
    cookieHeap,             \* the CookieStorage instances
    CookieStorage_storage,  \* static CookieStorage.storage
    facades,                \* the closures createClientStorage returned
    ret,                    \* the last call: operation, facade, arguments, outcome
    ops,                    \* number of calls made
    everSet,                \* history: the facades setStorage was called on
    lastWrite,              \* history: per backend and key, what the last
                            \* successful setItem / removeItem left
    pending,                \* per facade, the setItem its execution context is
                            \* in the middle of: between the read of the
                            \* backend and the write to it
    seen                    \* history: per facade, the world its last two-step
                            \* setItem read and the writes of others since

vars == <<localStorage, sessionStorage, cookieJar, now, memHeap, MemoryStorage_storage,
          cookieHeap, CookieStorage_storage, facades, ret, ops, everSet, lastWrite,
          pending, seen>>

World ==
    [localStorage |-> localStorage, sessionStorage |-> sessionStorage,
     cookieJar |-> cookieJar, now |-> now, memHeap |-> memHeap,
     MemoryStorage_storage |-> MemoryStorage_storage, cookieHeap |-> cookieHeap,
     CookieStorage_storage |-> CookieStorage_storage]

\* The world after a call.
Becomes(world) ==
    /\ localStorage' = world.localStorage
    /\ sessionStorage' = world.sessionStorage
    /\ cookieJar' = world.cookieJar
    /\ now' = world.now
    /\ memHeap' = world.memHeap
    /\ MemoryStorage_storage' = world.MemoryStorage_storage
    /\ cookieHeap' = world.cookieHeap
    /\ CookieStorage_storage' = world.CookieStorage_storage

\* The backend a facade has selected: its storageType, session for a value
\* that is none of the four kinds.
Selected(fac) ==
    IF fac.storageType \in StorageTypes THEN fac.storageType ELSE "sessionStorage"

\* What a setItem read: the world at its read step and the writes
\* [f, key, value] other facades have made to the same backend since.
Seen(world, since) == [world |-> world, since |-> since]

\* The record of a call: the operation, the facade, the arguments and the
\* outcome.
Outcome(op, f, key, value, r) ==
    [op |-> op, f |-> f, key |-> key, value |-> value, kind |-> r.kind, t |-> r.t, s |-> r.s]

Init ==
    /\ localStorage = OtherStore
    /\ sessionStorage = OtherStore
    /\ cookieJar = <<OtherCookie>>
    /\ now = 0
    /\ memHeap = <<>>
    /\ MemoryStorage_storage = 0
    /\ cookieHeap = <<>>
    /\ CookieStorage_storage = 0
    /\ \E choice \in [Facades -> DOMAIN AllowLists] :
          \* facades are interchangeable: their allow-lists are taken in the
          \* order of AllowLists
          /\ \A i, j \in Facades : i < j => choice[i] <= choice[j]
          /\ facades = [f \in Facades |-> createClientStorage(AllowLists[choice[f]])]
    /\ ret = Outcome("createClientStorage", 0, <<>>, <<>>, Return(Undefined))
    /\ ops = 0
    /\ everSet = {}
    /\ lastWrite = [b \in StorageTypes |-> [k \in Keys |-> Null]]
    /\ pending = [f \in Facades |-> NoCall]
    /\ seen = [f \in Facades |-> Seen(World, {})]

\* facades[f].setStorage(storeName)
SetStorage(f, storeName) ==
    /\ ops < MaxOps
    /\ LET r == setStorage(facades[f], World, storeName) IN
       /\ Becomes(r.world)
       /\ facades' = [facades EXCEPT ![f] = r.fac]
    /\ ret' = Outcome("setStorage", f, <<>>, <<>>, Return(Undefined))
    /\ ops' = ops + 1
    /\ everSet' = everSet \cup {f}
    /\ UNCHANGED <<lastWrite, pending, seen>>

\* facades[f].setItem(key, value)
SetItem(f, key, value) ==
    /\ ops < MaxOps
    /\ LET r == setItem(facades[f], World, key, value) IN
       /\ Becomes(r.world)
       /\ ret' = Outcome("setItem", f, key, value, r.ret)
       /\ lastWrite' = IF r.ret.kind = "return"
                       THEN [lastWrite EXCEPT ![Selected(facades[f])][key] = Str(value)]
                       ELSE lastWrite
    /\ ops' = ops + 1
    /\ UNCHANGED <<facades, everSet, pending, seen>>

\* facades[f].getItem(key)
GetItem(f, key) ==
    /\ ops < MaxOps
    /\ LET r == getItem(facades[f], World, key) IN
       /\ Becomes(r.world)
       /\ ret' = Outcome("getItem", f, key, <<>>, r.ret)
    /\ ops' = ops + 1
    /\ UNCHANGED <<facades, everSet, lastWrite, pending, seen>>

\* facades[f].removeItem(key)
RemoveItem(f, key) ==
    /\ ops < MaxOps
    /\ LET r == removeItem(facades[f], World, key) IN
       /\ Becomes(r.world)
       /\ ret' = Outcome("removeItem", f, key, <<>>, r.ret)
       /\ lastWrite' = IF r.ret.kind = "return"
                       THEN [lastWrite EXCEPT ![Selected(facades[f])][key] = Null]
                       ELSE lastWrite
    /\ ops' = ops + 1
    /\ UNCHANGED <<facades, everSet, pending, seen>>

Next ==
    \/ \E f \in Facades, t \in StorageTypes \cup {UnknownType} : SetStorage(f, t)
    \/ \E f \in Facades, k \in Keys, v \in Values : SetItem(f, k, v)
    \/ \E f \in Facades, k \in Keys : GetItem(f, k)
    \/ \E f \in Facades, k \in Keys : RemoveItem(f, k)

Spec == Init /\ [][Next]_vars

(***************************************************************************)
(* The same page when another script has left text that is not JSON under  *)
(* the root name: in the root entry of both native stores and in a         *)
(* session cookie of that name.                                            *)
(***************************************************************************)
\* x and {"a":
CorruptTexts == {<<"x">>, <<"{", "\"", "a", "\"", ":">>}
CorruptCookie(text) ==
    [name |-> STORAGE_NAME, value |-> text, session |-> TRUE, expires |-> 0, path |-> <<"/">>]

InitCorrupt ==
    /\ \E text \in CorruptTexts :
          /\ localStorage = Storage_setItem(OtherStore, STORAGE_NAME, text)
          /\ sessionStorage = Storage_setItem(OtherStore, STORAGE_NAME, text)
          /\ cookieJar = <<OtherCookie, CorruptCookie(text)>>
    /\ now = 0
    /\ memHeap = <<>>
    /\ MemoryStorage_storage = 0
    /\ cookieHeap = <<>>
    /\ CookieStorage_storage = 0
    /\ \E choice \in [Facades -> DOMAIN AllowLists] :
          /\ \A i, j \in Facades : i < j => choice[i] <= choice[j]
          /\ facades = [f \in Facades |-> createClientStorage(AllowLists[choice[f]])]
    /\ ret = Outcome("createClientStorage", 0, <<>>, <<>>, Return(Undefined))
    /\ ops = 0
    /\ everSet = {}
    /\ lastWrite = [b \in StorageTypes |-> [k \in Keys |-> Null]]
    /\ pending = [f \in Facades |-> NoCall]
    /\ seen = [f \in Facades |-> Seen(World, {})]

SpecCorrupt == InitCorrupt /\ [][Next]_vars

(***************************************************************************)
(* The same operations with time passing between the calls: new Date() in  *)
(* getUpdatedTime reads a clock that has advanced.                         *)
(***************************************************************************)
Tick ==
    /\ now < MaxTicks * TickMs
    /\ now' = now + TickMs
    /\ UNCHANGED <<localStorage, sessionStorage, cookieJar, memHeap, MemoryStorage_storage,
                   cookieHeap, CookieStorage_storage, facades, ret, ops, everSet, lastWrite,
                   pending, seen>>

NextClock == Next \/ Tick

SpecClock == Init /\ [][NextClock]_vars

(***************************************************************************)
(* Two execution contexts: tabs of one origin, each with its own facade.   *)
(* The tabs share window.localStorage and the cookies, the backends that   *)
(* persist; each has run createClientStorage(list) and setStorage(t) with  *)
(* t one of these two.  (Each tab has its own CookieStorage.storage; the    *)
(* instances hold nothing but the same STORAGE_NAME, so one stands for     *)
(* all.)  The tabs' calls of setItem run step by step, interleaved.         *)
(***************************************************************************)
SharedTypes == {"localStorage", "cookieStorage"}

FreshPage ==
    [localStorage |-> OtherStore, sessionStorage |-> OtherStore,
     cookieJar |-> <<OtherCookie>>, now |-> 0, memHeap |-> <<>>,
     MemoryStorage_storage |-> 0, cookieHeap |-> <<>>, CookieStorage_storage |-> 0]

\* The first n tabs after createClientStorage(AllowLists[lists[i]]) and
\* setStorage(types[i]) in each: [world, facades].
RECURSIVE Opened(_, _, _)
Opened(n, lists, types) ==
    IF n = 0 THEN [world |-> FreshPage, facades |-> <<>>]
    ELSE LET before == Opened(n - 1, lists, types)
             r == setStorage(createClientStorage(AllowLists[lists[n]]), before.world, types[n])
         IN  [world |-> r.world, facades |-> Append(before.facades, r.fac)]

InitRace ==
    /\ \E lists \in [Facades -> DOMAIN AllowLists], types \in [Facades -> SharedTypes] :
          LET o == Opened(NumFacades, lists, types) IN
          /\ localStorage = o.world.localStorage
          /\ sessionStorage = o.world.sessionStorage
          /\ cookieJar = o.world.cookieJar
          /\ now = o.world.now
          /\ memHeap = o.world.memHeap
          /\ MemoryStorage_storage = o.world.MemoryStorage_storage
          /\ cookieHeap = o.world.cookieHeap
          /\ CookieStorage_storage = o.world.CookieStorage_storage
          /\ facades = o.facades
    /\ ret = Outcome("setStorage", 0, <<>>, <<>>, Return(Undefined))
    /\ ops = 0
    /\ everSet = Facades
    /\ lastWrite = [b \in StorageTypes |-> [k \in Keys |-> Null]]
    /\ pending = [f \in Facades |-> NoCall]
    /\ seen = [f \in Facades |-> Seen(World, {})]

\* The first step of facades[f].setItem(key, value), in a tab that is not in
\* the middle of a call.
SetItem_read(f, key, value) ==
    /\ ops < MaxOps
    /\ pending[f].pc = "idle"
    /\ LET r == setItem_read(facades[f], World, key, value) IN
       /\ Becomes(r.world)
       /\ IF r.done
          THEN /\ ret' = Outcome("setItem", f, key, value, r.ret)
               /\ lastWrite' = IF r.ret.kind = "return"
                               THEN [lastWrite EXCEPT ![Selected(facades[f])][key] = Str(value)]
                               ELSE lastWrite
               /\ UNCHANGED <<pending, seen>>
          ELSE /\ pending' = [pending EXCEPT ![f] = Writing(key, value, r.str)]
               /\ seen' = [seen EXCEPT ![f] = Seen(World, {})]
               /\ UNCHANGED <<ret, lastWrite>>
    /\ ops' = ops + 1
    /\ UNCHANGED <<facades, everSet>>

\* The second step of the setItem facades[f] is in the middle of.
SetItem_write(f) ==
    /\ pending[f].pc = "write"
    /\ LET r == setItem_write(facades[f], World, pending[f]) IN
       /\ Becomes(r.world)
       /\ ret' = Outcome("setItem", f, pending[f].key, pending[f].value, r.ret)
    /\ lastWrite' = [lastWrite EXCEPT ![Selected(facades[f])][pending[f].key] =
                                          Str(pending[f].value)]
    /\ pending' = [pending EXCEPT ![f] = NoCall]
    /\ seen' = [g \in Facades |->
                  IF g # f /\ pending[g].pc = "write"
                     /\ Selected(facades[g]) = Selected(facades[f])
                  THEN Seen(seen[g].world,
                            seen[g].since \cup {[f |-> f, key |-> pending[f].key,
                                                  value |-> pending[f].value]})
                  ELSE seen[g]]
    /\ UNCHANGED <<facades, ops, everSet>>

NextRace ==
    \/ \E f \in Facades, k \in Keys, v \in Values : SetItem_read(f, k, v)
    \/ \E f \in Facades : SetItem_write(f)

SpecRace == InitRace /\ [][NextRace]_vars

(***************************************************************************)
(* Vocabulary of the properties.                                           *)
(***************************************************************************)
\* The text sub occurs in the text s.
Occurs(sub, s) ==
    \E i \in 1..Len(s) : i + Len(sub) <= Len(s) + 1 /\ SubSeq(s, i, i + Len(sub) - 1) = sub
ListMembers(list) == {list[i] : i \in 1..Len(list)}
\* r is the facade's rejection of key k / r is a rejection at all.
RejectsKey(r, k) == r.kind = "throw" /\ r.t = "Error" /\ Occurs(k, r.s)
IsRejection(r) == r.kind = "throw" /\ r.t = "Error"
\* The three keyed calls of facade fac in world w.
KeyedCalls(fac, w, k, v) ==
    {setItem(fac, w, k, v), getItem(fac, w, k), removeItem(fac, w, k)}

\* What a backend holds.
MemoryMap(w) ==
    IF w.MemoryStorage_storage = 0 THEN EmptyMap
    ELSE w.memHeap[w.MemoryStorage_storage].memStorage
Contents(b, w) ==
    CASE b = "localStorage" -> [kind |-> "Storage", store |-> w.localStorage]
      [] b = "sessionStorage" -> [kind |-> "Storage", store |-> w.sessionStorage]
      [] b = "memoryStorage" -> [kind |-> "Map", store |-> MemoryMap(w)]
      [] b = "cookieStorage" -> [kind |-> "cookies", store |-> w.cookieJar]

\* getItem(k) of a facade without allow-list that has backend b selected.
ReadWith(b, w, k) ==
    LET s == setStorage(createClientStorage(NoAllowedKeys), w, b) IN
    getItem(s.fac, s.world, k).ret

JustDid(op, f, k) == ret.op = op /\ ret.f = f /\ ret.key = k /\ ret.kind = "return"
\* The value a call returned.
Returned(r, x) == r.kind = "return" /\ r.t = x.t /\ r.s = x.s

\* C2: on a facade that has localStorage or sessionStorage selected, a
\* getItem(k) called right after a successful setItem(k, v) returns exactly v,
\* for every key k and value v.
C2_RoundTrip ==
    [][\A f \in Facades, k \in Keys :
          (/\ GetItem(f, k)
           /\ JustDid("setItem", f, k)
           /\ Selected(facades[f]) \in {"localStorage", "sessionStorage"})
          => Returned(ret', Str(ret.value))]_vars

\* C3: on each of the four backends, for every permitted key k and value v,
\* after setItem(k, v); removeItem(k) on one facade, getItem(k) of that facade
\* returns null.
C3_Removal ==
    [][\A f \in Facades, k \in Keys :
          (/\ RemoveItem(f, k)
           /\ JustDid("setItem", f, k)
           /\ ret'.kind = "return")
          => getItem(facades'[f], World', k).ret = Return(Null)]_vars

\* C4: for every backend B and key k, a getItem(k) that is not rejected and
\* is called with B selected returns what the most recent successful
\* setItem(k, .) / removeItem(k) executed with B selected left: the value
\* written, or null after a removal or when nothing was written.
C4_LastWrite ==
    [][\A f \in Facades, k \in Keys :
          (GetItem(f, k) /\ ~IsRejection(ret'))
          => Returned(ret', lastWrite[Selected(facades[f])][k])]_vars

\* C5: a setItem or removeItem executed with backend B selected leaves the
\* contents of every other backend B2 as they were, and with them the result
\* of getItem(k2) with B2 selected, for every key k2.
C5_Isolated(f) ==
    \A b2 \in StorageTypes \ {Selected(facades[f])} :
        /\ Contents(b2, World') = Contents(b2, World)
        /\ \A k2 \in Keys : ReadWith(b2, World', k2) = ReadWith(b2, World, k2)
\* C5, over every setItem and removeItem step: the step is isolated to the
\* selected backend.
C5_BackendIsolation ==
    [][\A f \in Facades, k \in Keys :
          ((\E v \in Values : SetItem(f, k, v)) \/ RemoveItem(f, k)) => C5_Isolated(f)]_vars

\* A key was written under the session backend, and after switching, the
\* local, memory and cookie backends do not return it.
C5_Witness ==
    /\ lastWrite["sessionStorage"][Key_a] = Str(<<"1">>)
    /\ ReadWith("sessionStorage", World, Key_a) = Return(Str(<<"1">>))
    /\ ReadWith("localStorage", World, Key_a) = Return(Null)
    /\ ReadWith("memoryStorage", World, Key_a) = Return(Null)
    /\ lastWrite["cookieStorage"][Str_toString] = Str(<<"1">>)
    /\ ~Occurs(Key_a, ReadWith("cookieStorage", World, Key_a).s)

\* C6: setStorage(kind) changes nothing but the calling facade's storageType
\* and storage: the two native stores, the in-memory map and the cookies are
\* the same before and after, and so are the other facades and the facade's
\* allow-list.
C6_SetStorageFrame ==
    [][\A f \in Facades, t \in StorageTypes \cup {UnknownType} :
          SetStorage(f, t)
          => /\ \A b \in StorageTypes : Contents(b, World') = Contents(b, World)
             /\ \A g \in Facades \ {f} : facades'[g] = facades[g]
             /\ facades'[f].allowedKeys = facades[f].allowedKeys]_vars

\* setStorage has just been called while the in-memory map and the session
\* store's root entry hold data, selecting a backend other than before.
C6_Witness ==
    /\ ret.op = "setStorage"
    /\ MemoryMap(World) # EmptyMap
    /\ \E f \in Facades : facades[f].storageType \notin {"memoryStorage", "sessionStorage"}

\* C7: a facade on which setStorage was never called behaves as after
\* setStorage('sessionStorage'): each of its calls has the outcome and the
\* effect of the same call made after that selection, and changes at most the
\* session store's root entry.
SameButRoot(w1, w2) ==
    /\ [w1 EXCEPT !.sessionStorage = w2.sessionStorage] = w2
    /\ \A n \in (DOMAIN w1.sessionStorage \cup DOMAIN w2.sessionStorage) \ {STORAGE_NAME} :
          /\ n \in DOMAIN w1.sessionStorage /\ n \in DOMAIN w2.sessionStorage
          /\ w1.sessionStorage[n] = w2.sessionStorage[n]
ActsOnSession(fac, w) ==
    LET ses == setStorage(fac, w, "sessionStorage").fac IN
    \A k \in Keys, v \in Values :
        /\ setItem(fac, w, k, v) = setItem(ses, w, k, v)
        /\ getItem(fac, w, k) = getItem(ses, w, k)
        /\ removeItem(fac, w, k) = removeItem(ses, w, k)
        /\ \A r \in KeyedCalls(fac, w, k, v) : SameButRoot(w, r.world)
C7_DefaultSession ==
    \A f \in Facades : f \notin everSet => ActsOnSession(facades[f], World)

\* No facade has called setStorage, and a setItem has written the session
\* store's root entry.
C7_Witness ==
    /\ everSet = {}
    /\ ret.op = "setItem" /\ ret.kind = "return"
    /\ STORAGE_NAME \in DOMAIN sessionStorage
    /\ STORAGE_NAME \notin DOMAIN localStorage

\* C8: setStorage with a value that is none of the four kinds changes no
\* store, whatever backend the facade had selected, and afterwards each call
\* of the facade has the outcome and the effect of the same call made after
\* setStorage('sessionStorage').
C8_UnknownIsSession ==
    \A f \in Facades :
        LET u == setStorage(facades[f], World, UnknownType) IN
        /\ u.world = World
        /\ ActsOnSession(u.fac, u.world)
        /\ facades[f].storageType \notin StorageTypes => ActsOnSession(facades[f], World)

\* A facade that had the cookie backend selected was given an unrecognised
\* kind, and its setItem then wrote the session store's root entry.
C8_Witness ==
    /\ \E f \in Facades : facades[f].storageType = UnknownType
    /\ CookieStorage_storage # 0
    /\ ret.op = "setItem" /\ ret.kind = "return"
    /\ STORAGE_NAME \in DOMAIN sessionStorage

\* C9: two facades that both have memoryStorage selected return the same
\* result from getItem(k) for every key k both permit, and after a setItem(k, v)
\* by a facade that has memoryStorage selected, getItem(k) of every other
\* facade that permits k returns v once it has memoryStorage selected (before
\* the write or only after it).
C9_SameResult ==
    \A f, g \in Facades, k \in Keys :
        (/\ facades[f].storageType = "memoryStorage"
         /\ facades[g].storageType = "memoryStorage"
         /\ ~Disallowed(facades[f], k) /\ ~Disallowed(facades[g], k))
        => getItem(facades[f], World, k).ret = getItem(facades[g], World, k).ret
C9_WriteSeen(f, k, v) ==
    \A g \in Facades \ {f} : ~Disallowed(facades[g], k) =>
        LET late == setStorage(facades'[g], World', "memoryStorage") IN
        getItem(late.fac, late.world, k).ret = Return(Str(v))
\* C9: memory facades always agree, and every accepted write through one of
\* them is returned by the others.
C9_MemorySharing ==
    /\ []C9_SameResult
    /\ [][\A f \in Facades, k \in Keys, v \in Values :
             (/\ SetItem(f, k, v)
              /\ facades[f].storageType = "memoryStorage"
              /\ ret'.kind = "return")
             => C9_WriteSeen(f, k, v)]_vars

\* C10: a facade created with the empty list never throws the 'not allowed'
\* Error from setItem, getItem or removeItem.
C10_EmptyListPermitsAll ==
    [][\A f \in Facades, k \in Keys :
          (/\ facades[f].allowedKeys = AllowedKeys(<<>>)
           /\ \/ \E v \in Values : SetItem(f, k, v)
              \/ GetItem(f, k)
              \/ RemoveItem(f, k))
          => ~IsRejection(ret')]_vars

(***************************************************************************)
(* Vocabulary of the properties about what a backend's map holds.          *)
(***************************************************************************)
\* The root cookie of the jar: [found, value, expires, path, session].
RootCookie(w) ==
    LET live == SelectSeq(LiveCookies(w.cookieJar, w.now), LAMBDA c : c.name = STORAGE_NAME) IN
    IF live = <<>>
    THEN [found |-> FALSE, value |-> <<>>, expires |-> 0, path |-> <<>>, session |-> FALSE]
    ELSE [found |-> TRUE, value |-> live[1].value, expires |-> live[1].expires,
          path |-> live[1].path, session |-> live[1].session]

\* A serialized map read as a map: [ok, obj]; no text is the empty map.
TextMap(present, text) ==
    IF ~present THEN [ok |-> TRUE, obj |-> <<>>] ELSE JSON_parse(text)

\* The map in the root cookie: its value URL-decoded and parsed.
CookieMap(w) ==
    LET c == RootCookie(w)
        d == decodeURIComponent(c.value)
    IN  IF c.found /\ ~d.ok THEN JSON_fail ELSE TextMap(c.found, d.val)

\* The map in the root entry of a native store.
NativeMap(store) ==
    TextMap(STORAGE_NAME \in DOMAIN store,
            IF STORAGE_NAME \in DOMAIN store THEN store[STORAGE_NAME] ELSE <<>>)

\* The record of key k in backend b: "present" with its value, "absent", or
\* "unreadable" when the backend's serialized map does not parse.
RecordIn(m, k) ==
    IF ~m.ok THEN [state |-> "unreadable", value |-> <<>>]
    ELSE IF HasOwn(m.obj, k) THEN [state |-> "present", value |-> m.obj[OwnIndex(m.obj, k)].v]
    ELSE [state |-> "absent", value |-> <<>>]
Record(b, w, k) ==
    CASE b = "localStorage" -> RecordIn(NativeMap(w.localStorage), k)
      [] b = "sessionStorage" -> RecordIn(NativeMap(w.sessionStorage), k)
      [] b = "cookieStorage" -> RecordIn(CookieMap(w), k)
      [] b = "memoryStorage" ->
            IF k \in DOMAIN MemoryMap(w)
            THEN [state |-> "present", value |-> MemoryMap(w)[k]]
            ELSE [state |-> "absent", value |-> <<>>]

\* The raw read() of the cookie store with the root name.
RawRead(w) == CookieStorage_read([STORAGE_NAME |-> STORAGE_NAME], w)

\* C11: a setItem(k, v) that returns with the cookie backend selected leaves a
\* root cookie whose value URL-decodes and parses as a JSON object that maps
\* k to v and holds every other record it held before, and the cookie store's
\* read() returns that serialized map.
C11_CookiePayload ==
    [][\A f \in Facades, k \in Keys, v \in Values :
          (/\ SetItem(f, k, v)
           /\ facades[f].storageType = "cookieStorage"
           /\ ret'.kind = "return")
          => /\ RootCookie(World').found
             /\ CookieMap(World').ok
             /\ Record("cookieStorage", World', k) = [state |-> "present", value |-> v]
             /\ \A k2 \in Keys \ {k} :
                   Record("cookieStorage", World', k2) = Record("cookieStorage", World, k2)
             /\ RawRead(World') = [ok |-> TRUE, val |-> JSON_stringify(CookieMap(World').obj)]]_vars

\* The native store a facade has selected, if it has one selected.
SelectedStore(fac, w) == NativeStore(w, Selected(fac))
\* r is a propagated JSON.parse failure.
IsParseFailure(r) == r.kind = "throw" /\ r.t = "SyntaxError"

\* C12: with localStorage or sessionStorage selected and a root entry holding
\* non-empty text that is not JSON, each setItem, getItem and removeItem with a
\* permitted key throws the SyntaxError of JSON.parse and leaves every store,
\* the cookies, the in-memory map and the facades as they were.
C12_ParseFailurePropagates ==
    [][\A f \in Facades, k \in Keys :
          (/\ (\E v \in Values : SetItem(f, k, v)) \/ GetItem(f, k) \/ RemoveItem(f, k)
           /\ Selected(facades[f]) \in {"localStorage", "sessionStorage"}
           /\ ~Disallowed(facades[f], k)
           /\ STORAGE_NAME \in DOMAIN SelectedStore(facades[f], World)
           /\ SelectedStore(facades[f], World)[STORAGE_NAME] # <<>>
           /\ ~NativeMap(SelectedStore(facades[f], World)).ok)
          => /\ IsParseFailure(ret')
             /\ World' = World
             /\ facades' = facades]_vars

\* With localStorage selected and its root entry holding text that is not
\* JSON, a setItem and then a removeItem have failed with the parse failure.
C12_Witness ==
    /\ ret.op = "removeItem" /\ IsParseFailure(ret)
    /\ facades[ret.f].storageType = "localStorage"
    /\ ~NativeMap(localStorage).ok
    /\ ops = MaxOps

\* Facade f makes one of the three keyed calls with key k.
KeyedCall(f, k) == (\E v \in Values : SetItem(f, k, v)) \/ GetItem(f, k) \/ RemoveItem(f, k)
\* The expiry a cookie written at time t gets: t + 7 days as toUTCString
\* names it.
ExpiryAt(t) == Date_parse(Date_toUTCString(t + DefaultNumDays * MsPerDay)).ms

\* C13: a setItem, getItem or removeItem rejected for a key that is not in
\* the allow-list leaves the facade (its storageType and storage), the two
\* native stores, the in-memory map and the cookies, expiry included, as they
\* were before the call.
C13_GateFirst ==
    [][\A f \in Facades, k \in Keys :
          (KeyedCall(f, k) /\ Disallowed(facades[f], k))
          => /\ IsRejection(ret')
             /\ facades' = facades
             /\ \A b \in StorageTypes : Contents(b, World') = Contents(b, World)
             /\ World' = World]_vars

\* A removeItem has just been rejected on a facade that has the cookie
\* backend selected, at a time when rewriting the root cookie would have
\* given it a later expiry.
C13_Witness ==
    /\ ret.op = "removeItem" /\ IsRejection(ret)
    /\ facades[ret.f].storageType = "cookieStorage"
    /\ RootCookie(World).found
    /\ RootCookie(World).expires < ExpiryAt(now)

WritesOverUnparsable(f, k, v) ==
    /\ SetItem(f, k, v)
    /\ facades[f].storageType = "cookieStorage"
    /\ ~Disallowed(facades[f], k)
    /\ RawRead(World).ok /\ RawRead(World).val # <<>>
    /\ ~JSON_parse(RawRead(World).val).ok

\* C15: the cookie store's setItem(key, value) treats an existing cookie value
\* that cannot be parsed as JSON as the empty map: the call returns and the
\* cookie then holds the map with the one record key -> value.
C15_UnparsableIsEmpty ==
    [][\A f \in Facades, k \in Keys, v \in Values :
          WritesOverUnparsable(f, k, v)
          => /\ ret'.kind = "return"
             /\ CookieMap(World') = [ok |-> TRUE, obj |-> <<[k |-> k, v |-> v]>>]]_vars

\* C15 as amended: the cookie store's setItem(key, value) over an existing
\* cookie value that cannot be parsed as JSON fails with the SyntaxError of
\* JSON.parse, and the cookie and everything else stay as they were.
C15_UnparsableThrows ==
    [][\A f \in Facades, k \in Keys, v \in Values :
          WritesOverUnparsable(f, k, v)
          => /\ IsParseFailure(ret')
             /\ World' = World
             /\ facades' = facades]_vars

\* With the cookie backend selected and a root cookie whose value is not
\* JSON, a setItem has just failed with the parse failure.
C15_Witness ==
    /\ ret.op = "setItem" /\ IsParseFailure(ret)
    /\ facades[ret.f].storageType = "cookieStorage"
    /\ RootCookie(World).found
    /\ RootCookie(World).value \in CorruptTexts

C17_PerKeyFrame ==
    [][\A f \in Facades, k \in Keys :
          (/\ (\E v \in Values : SetItem(f, k, v)) \/ RemoveItem(f, k)
           /\ ret'.kind = "return")
          => \A k2 \in Keys \ {k} :
                Record(Selected(facades[f]), World', k2)
                   = Record(Selected(facades[f]), World, k2)]_vars

\* The entries of a native store other than the root entry.
OtherEntries(store) == [n \in (DOMAIN store) \ {STORAGE_NAME} |-> store[n]]

\* C18: the facades read and write nothing in localStorage and sessionStorage
\* but the entry named '__react__storage': the other entries are the ones the
\* page started with, no key of a facade call is the name of an entry, and a
\* root entry, once written, is a JSON object of string values (the text
\* JSON.stringify gives for the map it parses to).
C18_RootEntryOnly ==
    \A store \in {localStorage, sessionStorage} :
        /\ OtherEntries(store) = OtherStore
        /\ Keys \cap DOMAIN store = {}
        /\ STORAGE_NAME \in DOMAIN store
              => /\ NativeMap(store).ok
                 /\ store[STORAGE_NAME] = JSON_stringify(NativeMap(store).obj)

\* Both native stores have a root entry, the local one written by the
\* setItem that has just returned.
C18_Witness ==
    /\ ret.op = "setItem" /\ ret.kind = "return"
    /\ facades[ret.f].storageType = "localStorage"
    /\ STORAGE_NAME \in DOMAIN localStorage
    /\ STORAGE_NAME \in DOMAIN sessionStorage

\* C19: with localStorage or sessionStorage selected, a removeItem(k) with a
\* permitted key changes nothing when the store has no root entry (it creates
\* none), and when the store has a root entry (a setItem has written one) it
\* leaves a root entry holding the map it held without k.
C19_RemoveWithoutRoot ==
    [][\A f \in Facades, k \in Keys :
          (/\ RemoveItem(f, k)
           /\ Selected(facades[f]) \in {"localStorage", "sessionStorage"}
           /\ ~Disallowed(facades[f], k))
          => LET before == SelectedStore(facades[f], World)
                 after == SelectedStore(facades[f], World')
             IN  /\ ret'.kind = "return"
                 /\ IF STORAGE_NAME \notin DOMAIN before
                    THEN /\ STORAGE_NAME \notin DOMAIN after
                         /\ World' = World
                    ELSE /\ STORAGE_NAME \in DOMAIN after
                         /\ NativeMap(after) =
                               [ok |-> TRUE, obj |-> ObjDelete(NativeMap(before).obj, k)]
                         /\ Record(Selected(facades[f]), World', k).state = "absent"]_vars

\* A removeItem has just returned on a facade that has localStorage selected,
\* where there is no root entry, while the session store has one from an
\* earlier setItem.
C19_Witness ==
    /\ ret.op = "removeItem" /\ ret.kind = "return"
    /\ facades[ret.f].storageType = "localStorage"
    /\ STORAGE_NAME \notin DOMAIN localStorage
    /\ STORAGE_NAME \in DOMAIN sessionStorage

\* Facade f, with the cookie backend selected, completes a setItem or a
\* removeItem with key k.
CookieMutation(f, k) ==
    /\ (\E v \in Values : SetItem(f, k, v)) \/ RemoveItem(f, k)
    /\ facades[f].storageType = "cookieStorage"
    /\ ret'.kind = "return"
\* t + 7 days, to the millisecond.
ExactExpiryAt(t) == t + DefaultNumDays * MsPerDay

\* C20: every setItem and removeItem completed at time t with the cookie
\* backend selected, also a removeItem of an absent key or without a cookie,
\* leaves a root cookie with path=/ and expiry t + 7 days, and no other step
\* changes a cookie; so that, by induction, the cookie's expiry is in every
\* reachable state the time of the last mutation plus 7 days.
C20_SlidingExpiry ==
    [][/\ \A f \in Facades, k \in Keys :
             CookieMutation(f, k)
             => /\ RootCookie(World').found
                /\ ~RootCookie(World').session
                /\ RootCookie(World').path = <<"/">>
                /\ RootCookie(World').expires = ExactExpiryAt(now)
       /\ (\A f \in Facades, k \in Keys : ~CookieMutation(f, k))
             => cookieJar' = cookieJar]_vars

(***************************************************************************)
(* Two tabs (SpecRace).                                                    *)
(***************************************************************************)
\* C21: when a tab's setItem writes after another tab has written to the
\* same backend (localStorage's root entry or the cookie) since the setItem
\* read it -- the reads and writes of the two calls overlap -- the backend
\* afterwards holds what this setItem alone would have left from the state
\* it read: the last writer's map.  Nothing of the other tab's write is in
\* it, and nothing is detected or retried: the call returns.
C21_LastWriterWins ==
    [][\A f \in Facades :
          (SetItem_write(f) /\ seen[f].since # {})
          => LET b == Selected(facades[f])
                 alone == setItem(facades[f], seen[f].world, pending[f].key, pending[f].value)
             IN  /\ Contents(b, World') = Contents(b, alone.world)
                 /\ ret'.kind = "return"]_vars

\* Both tabs' calls have returned, on different keys; the last writer's key
\* is stored and the key the other tab wrote with "1" is absent.
C21_Witness ==
    \E f \in Facades, b \in SharedTypes :
        /\ \A g \in Facades : pending[g].pc = "idle"
        /\ ret.op = "setItem" /\ ret.f = f /\ ret.kind = "return"
        /\ Selected(facades[f]) = b
        /\ Record(b, World, ret.key) = [state |-> "present", value |-> ret.value]
        /\ \E w \in seen[f].since :
              /\ w.f # f
              /\ w.key # ret.key
              /\ w.value = <<"1">>
              /\ Record(b, World, w.key).state = "absent"

(***************************************************************************)
(* Keys and the allow-list.                                                *)
(***************************************************************************)
\* The keys of the map backend b holds (none when its text does not parse).
MapOf(b, w) ==
    CASE b = "localStorage" -> NativeMap(w.localStorage)
      [] b = "sessionStorage" -> NativeMap(w.sessionStorage)
      [] b = "cookieStorage" -> CookieMap(w)
StoredKeys(b, w) ==
    IF b = "memoryStorage" THEN DOMAIN MemoryMap(w)
    ELSE IF MapOf(b, w).ok THEN OwnKeys(MapOf(b, w).obj) ELSE {}

\* C22: from empty backends, when every facade was created with the same
\* allow-list L, the keys of the map of each of the four backends are keys
\* of L in every reachable state.
C22_KeysWithinAllowList ==
    \A i \in DOMAIN AllowLists :
        (AllowLists[i].given /\ \A f \in Facades : facades[f].allowedKeys = AllowLists[i])
        => \A b \in StorageTypes : StoredKeys(b, World) \subseteq ListMembers(AllowLists[i].list)

(***************************************************************************)
(* Reads.                                                                  *)
(***************************************************************************)
\* C23: a getItem call, whether it returns a value, returns null or throws,
\* changes nothing: the two native stores, the memory backend's map, the
\* cookies with their expiry, the classes' instances and every facade's
\* storageType and storage are after the call what they were before it.
C23_GetItemReadOnly ==
    [][\A f \in Facades, k \in Keys :
          GetItem(f, k)
          => /\ ret'.op = "getItem"
             /\ World' = World
             /\ \A b \in StorageTypes : Contents(b, World') = Contents(b, World)
             /\ RootCookie(World') = RootCookie(World)
             /\ facades' = facades]_vars

\* Later than the setItem that wrote the cookie, getItem has returned a
\* string with the cookie backend selected, and the cookie has the expiry
\* that setItem gave it.
C23_Witness ==
    /\ ret.op = "getItem" /\ ret.kind = "return" /\ ret.t = "string"
    /\ facades[ret.f].storageType = "cookieStorage"
    /\ now > 0
    /\ RootCookie(World).found
    /\ RootCookie(World).expires = ExpiryAt(0)

=============================================================================
